---- MODULE Spec2Model ----
(***************************************************************************)
(* Calendar Combiner and Obfuscator: packages/calendar/combine/index.js.   *)
(*                                                                         *)
(* main(args) reads CALENDAR_URLS and BUCKET_NAME, downloads every         *)
(* calendar concurrently, merges them with combineCalendars and uploads    *)
(* the serialized result.  The module keeps one global, the verbose flag.  *)
(*                                                                         *)
(* The iCalendar library (ical.js) is modelled at the level of its jCal    *)
(* trees: a component is [name, props, comps], a property is               *)
(* [name, value, tz].  Every parsed or constructed node also carries the   *)
(* identity of the JavaScript object that holds it (oid), and a date-time  *)
(* property carries the zone field of its decorated Time value (zone).     *)
(***************************************************************************)
EXTENDS Integers, Sequences, FiniteSets, TLC

\* Bound: children of the root component of one sample calendar.
MaxEvents == 2

\* Bound: comma separated segments of a sample CALENDAR_URLS string.
MaxSegs == 3

(***************************************************************************)
(* Generic helpers on sequences.                                           *)
(***************************************************************************)
RECURSIVE SeqsUpTo(_, _)
SeqsUpTo(S, n) ==
    IF n = 0 THEN {<<>>}
    ELSE LET shorter == SeqsUpTo(S, n - 1)
         IN  shorter \cup {Append(s, x) : s \in {t \in shorter : Len(t) = n - 1}, x \in S}

RemoveAt(s, i) == [k \in 1..(Len(s) - 1) |-> IF k < i THEN s[k] ELSE s[k + 1]]

Indices(s) == 1..Len(s)

(***************************************************************************)
(* iCalendar text.  A text either is not parseable (kind "garbage") or    *)
(* holds one root component; P and C build the properties and components of the  *)
(* sample texts.  tz is how the text writes the zone of a date-time:       *)
(* "none" (floating, no Z and no TZID), "utc" (trailing Z) or "tzid" (a    *)
(* TZID parameter); other properties have tz = "none".                     *)
(***************************************************************************)
P(name, value, tz) == [name |-> name, value |-> value, tz |-> tz]

C(name, props, comps) == [name |-> name, props |-> props, comps |-> comps]

Alarm == C("valarm", <<P("description", "Reminder", "none")>>, <<>>)

EvDentist ==
    C("vevent",
      <<P("uid", "u1", "none"), P("summary", "Dentist", "none"),
        P("location", "Clinic", "none"), P("dtstart", "d1", "utc"),
        P("dtend", "d2", "utc")>>,
      <<Alarm>>)

EvWeekly ==
    C("vevent",
      <<P("x-secret", "s", "none"), P("dtstart", "d3", "none"),
        P("rrule", "FREQ=WEEKLY", "none"), P("duration", "PT1H", "none")>>,
      <<>>)

EvNoStart ==
    C("vevent",
      <<P("summary", "Lunch", "none"), P("attendee", "bob", "none"),
        P("uid", "u2", "none")>>,
      <<>>)

EvDup ==
    C("vevent",
      <<P("dtstart", "d4", "tzid"), P("uid", "u3", "none"),
        P("dtstart", "d5", "none"), P("uid", "u4", "none"),
        P("organizer", "eve", "none")>>,
      <<>>)

EvNested == C("vevent", <<P("uid", "u5", "none"), P("dtstart", "d6", "none")>>, <<>>)

\* An intermediate grouping component that holds an event.
Group == C("x-group", <<>>, <<EvNested>>)

SampleChildren == {EvDentist, EvWeekly, EvNoStart, EvDup, Group}

Calendar(children) == C("vcalendar", <<P("version", "2.0", "none")>>, children)

Text(root) == [kind |-> "ics", root |-> root]

\* A body that ical.parse rejects, and a URL whose fetch rejects.
Garbage == [kind |-> "garbage", root |-> C("", <<>>, <<>>)]

Unreachable == [kind |-> "unreachable", root |-> C("", <<>>, <<>>)]

RichTexts == {Text(Calendar(cs)) : cs \in SeqsUpTo(SampleChildren, MaxEvents)}

PlainTexts == {Text(Calendar(<<EvDentist>>)), Text(Calendar(<<EvWeekly, Group>>))}

(***************************************************************************)
(* ical.js objects.  ical.parse + new ical.Component(jCal) give a tree of  *)
(* objects; oid is the object's identity (the path from the source index), *)
(* zone is the zone of the property's decorated Time value, "unhydrated"   *)
(* until getFirstPropertyValue builds it.                                  *)
(***************************************************************************)
Prop(p, oid) ==
    [name |-> p.name, value |-> p.value, tz |-> p.tz, oid |-> oid, zone |-> "unhydrated"]

RECURSIVE Component(_, _)
Component(c, oid) ==
    [name  |-> c.name,
     oid   |-> oid,
     props |-> [j \in Indices(c.props) |-> Prop(c.props[j], oid \o <<0 - j>>)],
     comps |-> [k \in Indices(c.comps) |-> Component(c.comps[k], oid \o <<k>>)]]

\* new ical.Component("vevent"): a fresh, empty, parentless component.
NewComponent(name, oid) == [name |-> name, oid |-> oid, props |-> <<>>, comps |-> <<>>]

\* component.toString(): the text is written from the jCal data alone.
RECURSIVE Stringify(_)
Stringify(c) ==
    [name  |-> c.name,
     props |-> [j \in Indices(c.props) |->
                   P(c.props[j].name, c.props[j].value, c.props[j].tz)],
     comps |-> [k \in Indices(c.comps) |-> Stringify(c.comps[k])]]

(***************************************************************************)
(* The ical.js calls combineCalendars makes.                               *)
(***************************************************************************)
\* The release of ical.js that `require("ical.js")` resolves to: 1 or 2.
IcalMajors == {1, 2}

\* As getAllSubcomponents, without the test of the name.
getAllSubcomponentsAnyName(c, name) == [k \in Indices(c.comps) |-> c.comps[k].oid]

\* calendar.getAllSubcomponents(name): the children of this component, and
\* only those, whose name matches (the library loops over jCal[2] once).
getAllSubcomponents(c, name) ==
    LET Pick[k \in 0..Len(c.comps)] ==
            IF k = 0 THEN <<>>
            ELSE IF c.comps[k].name = name THEN Append(Pick[k - 1], c.comps[k].oid)
                 ELSE Pick[k - 1]
    IN  Pick[Len(c.comps)]

\* As getFirstProperty, but the last property of that name.
getLastProperty(c, name) ==
    LET hits == {j \in Indices(c.props) : c.props[j].name = name}
    IN  IF hits = {} THEN 0 ELSE CHOOSE j \in hits : \A h \in hits : h <= j

\* c.getFirstProperty(name): the index of the first property called name, 0
\* (null) when there is none.
getFirstProperty(c, name) ==
    LET hits == {j \in Indices(c.props) : c.props[j].name = name}
    IN  IF hits = {} THEN 0 ELSE CHOOSE j \in hits : \A h \in hits : j <= h

\* target.addProperty(owner.props[j]): the property object itself is pushed
\* onto the target, after property.parent.removeProperty(property) has taken
\* it off the component that held it.
addProperty(target, owner, j) ==
    [target |-> [target EXCEPT !.props = Append(@, owner.props[j])],
     owner  |-> [owner EXCEPT !.props = RemoveAt(@, j)]]

\* c.updatePropertyWithValue(name, value): overwrite the first property of
\* that name, or add a new property object when there is none.
updatePropertyWithValue(c, name, value) ==
    LET j == getFirstProperty(c, name)
    IN  IF j # 0 THEN [c EXCEPT !.props[j].value = value]
        ELSE [c EXCEPT !.props =
                 Append(@, Prop(P(name, value, "none"), c.oid \o <<0 - (Len(@) + 1)>>))]

\* The zone of the Time value a date-time property decorates to
\* (Time.fromDateTimeString): UTC for a trailing Z; for a TZID the zone of
\* that name known to the library, which for these calendars (no VTIMEZONE,
\* none registered) is Timezone.localTimezone; for a floating time
\* localTimezone in release 1 and null in release 2.
TimeZoneOf(p, major) ==
    IF p.zone # "unhydrated" THEN p.zone
    ELSE IF p.tz = "utc" THEN "utc"
    ELSE IF p.tz = "tzid" THEN "floating"
    ELSE IF major = 1 THEN "floating" ELSE "null"

(***************************************************************************)
(* combineCalendars(calendars, obfuscate)                                  *)
(***************************************************************************)
\* As essentialProps, with location kept too.
essentialPropsWithLocation == <<"dtstart", "dtend", "duration", "rrule", "uid", "location">>

essentialProps == <<"dtstart", "dtend", "duration", "rrule", "uid">>

\* essentialProps.forEach: moves the first property of each name, in order,
\* from the event to the obfuscated event; st = [target, owner].
RECURSIVE CopyEssential(_, _)
CopyEssential(st, names) ==
    IF names = <<>> THEN st
    ELSE LET j == getFirstProperty(st.owner, Head(names))
         IN  IF j = 0 THEN CopyEssential(st, Tail(names))
             ELSE CopyEssential(addProperty(st.target, st.owner, j), Tail(names))

\* Lines 98-113: [target |-> the obfuscated event, owner |-> what is left of
\* the source event].
Obfuscate(event) ==
    LET st == CopyEssential([target |-> NewComponent("vevent", <<0>> \o event.oid),
                             owner  |-> event], essentialProps)
    IN  [st EXCEPT !.target = updatePropertyWithValue(@, "summary", "BUSY")]

\* Lines 116-119: startDate = event.getFirstPropertyValue("dtstart"); a Time
\* whose zone is falsy gets Timezone.utcTimezone.  Only the Time object
\* changes, the property's jCal value (tz) is not written.
NormalizeStart(event, major) ==
    LET j == getFirstProperty(event, "dtstart")
    IN  IF j = 0 THEN event
        ELSE LET z == TimeZoneOf(event.props[j], major)
             IN  [event EXCEPT !.props[j].zone = IF z = "null" THEN "utc" ELSE z]

\* The child of tree whose object is oid (0 when it is not a child).
ChildIndex(tree, oid) ==
    LET hits == {k \in Indices(tree.comps) : tree.comps[k].oid = oid}
    IN  IF hits = {} THEN 0 ELSE CHOOSE k \in hits : TRUE

\* combinedCalendar.addSubcomponent(event): the event object becomes the last
\* child of the combined calendar; an event that has a parent is first taken
\* off that parent (component.parent.removeSubcomponent(component)).
addSubcomponent(acc, k, event) ==
    [acc EXCEPT !.combined = Append(@, event),
                !.tree.comps = IF k = 0 THEN @ ELSE RemoveAt(@, k)]

\* As ProcessEvent, with the obfuscate flag ignored: every event is redacted.
ProcessEventAlwaysObfuscate(acc, oid, obfuscate, major) ==
    LET k  == ChildIndex(acc.tree, oid)
        ob == Obfuscate(acc.tree.comps[k])
    IN  addSubcomponent([acc EXCEPT !.tree.comps[k] = ob.owner], 0,
                        NormalizeStart(ob.target, major))

\* The body of events.forEach (lines 95-123) for the event object oid of the
\* source tree acc.tree.
ProcessEvent(acc, oid, obfuscate, major) ==
    LET k  == ChildIndex(acc.tree, oid)
        ev == acc.tree.comps[k]
    IN  IF obfuscate
        THEN LET ob == Obfuscate(ev)
             IN  addSubcomponent([acc EXCEPT !.tree.comps[k] = ob.owner], 0,
                                 NormalizeStart(ob.target, major))
        ELSE addSubcomponent(acc, k, NormalizeStart(ev, major))

RECURSIVE ProcessEvents(_, _, _, _)
ProcessEvents(acc, events, obfuscate, major) ==
    IF events = <<>> THEN acc
    ELSE ProcessEvents(ProcessEvent(acc, Head(events), obfuscate, major),
                       Tail(events), obfuscate, major)

\* As ProcessCalendars, but a source that does not parse is skipped.
RECURSIVE ProcessCalendarsSkipBad(_, _, _, _, _, _)
ProcessCalendarsSkipBad(r, calendars, s, obfuscate, loud, major) ==
    IF s > Len(calendars) THEN r
    ELSE IF calendars[s].kind # "ics"
    THEN ProcessCalendarsSkipBad(r, calendars, s + 1, obfuscate, loud, major)
    ELSE LET calendar == Component(calendars[s].root, <<s>>)
             events   == getAllSubcomponents(calendar, "vevent")
             acc      == ProcessEvents([combined |-> r.combined, tree |-> calendar],
                                       events, obfuscate, major)
         IN  ProcessCalendarsSkipBad(
                 [r EXCEPT !.combined = acc.combined,
                           !.sources = Append(@, acc.tree),
                           !.parsed = @ + 1,
                           !.logs = @ + (IF loud THEN 2 ELSE 0)],
                 calendars, s + 1, obfuscate, loud, major)

\* calendars.forEach (lines 88-124), from source s on.  r is the merge so far:
\* the events added to combinedCalendar, the source trees as the merge leaves
\* them, the number of sources parsed and of log lines printed, and whether
\* ical.parse threw.
RECURSIVE ProcessCalendars(_, _, _, _, _, _)
ProcessCalendars(r, calendars, s, obfuscate, loud, major) ==
    IF s > Len(calendars) THEN r
    ELSE IF calendars[s].kind # "ics"
    THEN [r EXCEPT !.threw = TRUE, !.logs = @ + (IF loud THEN 1 ELSE 0)]
    ELSE LET calendar == Component(calendars[s].root, <<s>>)
             events   == getAllSubcomponents(calendar, "vevent")
             acc      == ProcessEvents([combined |-> r.combined, tree |-> calendar],
                                       events, obfuscate, major)
         IN  ProcessCalendars(
                 [r EXCEPT !.combined = acc.combined,
                           !.sources = Append(@, acc.tree),
                           !.parsed = @ + 1,
                           !.logs = @ + (IF loud THEN 2 ELSE 0)],
                 calendars, s + 1, obfuscate, loud, major)

NoMerge == [ran |-> FALSE, threw |-> FALSE, combined |-> <<>>, sources |-> <<>>, parsed |-> 0, logs |-> 0]

\* combineCalendars(calendars, obfuscate), run while the global verbose flag
\* is loud, against release major of the library.
combineCalendars(calendars, obfuscate, loud, major) ==
    LET r == ProcessCalendars([NoMerge EXCEPT !.ran = TRUE, !.logs = IF loud THEN 1 ELSE 0],
                              calendars, 1, obfuscate, loud, major)
    IN  IF r.threw THEN r ELSE [r EXCEPT !.logs = @ + (IF loud THEN 1 ELSE 0)]

(***************************************************************************)
(* Configuration: process.env, the arguments of main, the web.             *)
(***************************************************************************)
\* CALENDAR_URLS is a string of these characters: "a" and "b" are each a
\* whole calendar URL.
Segments == {<<>>, <<"a">>, <<" ", "b">>}

RECURSIVE Join(_)
Join(segs) ==
    IF Len(segs) = 1 THEN segs[1] ELSE segs[1] \o <<",">> \o Join(Tail(segs))

UrlStrings == {Join(segs) : segs \in SeqsUpTo(Segments, MaxSegs) \ {<<>>}}

Unset == [set |-> FALSE, str |-> <<>>]

EnvString(str) == [set |-> TRUE, str |-> str]

\* urlString.split(",")
RECURSIVE Split(_)
Split(str) ==
    LET commas == {k \in Indices(str) : str[k] = ","}
    IN  IF commas = {} THEN <<str>>
        ELSE LET k == CHOOSE c \in commas : \A d \in commas : c <= d
             IN  <<SubSeq(str, 1, k - 1)>> \o Split(SubSeq(str, k + 1, Len(str)))

\* url.trim()
RECURSIVE Trim(_)
Trim(str) ==
    IF str = <<>> THEN str
    ELSE IF Head(str) = " " THEN Trim(Tail(str))
    ELSE IF str[Len(str)] = " " THEN Trim(SubSeq(str, 1, Len(str) - 1))
    ELSE str

\* getCalendarUrls(), lines 53-62, of the value of process.env.CALENDAR_URLS.
getCalendarUrls(urlString) ==
    IF ~urlString.set \/ urlString.str = <<>> THEN <<>>
    ELSE LET parts == Split(urlString.str)
         IN  [k \in Indices(parts) |-> Trim(parts[k])]

\* An argument of main as the platform passes it: a boolean or a string.
BoolArg(b) == [type |-> "boolean", text |-> IF b THEN "true" ELSE "false"]

StrArg(str) == [type |-> "string", text |-> str]

\* x === "true" || x === true (lines 175-176)
IsTrue(x) == x.text = "true"

Urls == {<<"a">>, <<"b">>}

\* fetch(url) throws at once for a string that is no absolute URL.
ValidUrl(url) == url \in Urls

Invocations == {1, 2}

VARIABLES
    env,        \* process.env: CALENDAR_URLS, BUCKET_NAME
    web,        \* what each URL answers
    icalMajor,  \* the installed release of ical.js
    verbose,    \* the module's global verbose flag (line 26)
    args,       \* args[i]: the arguments of invocation i of main
    pc,         \* pc[i]: where invocation i of main is
    urls,       \* urls[i]: const urls (line 193)
    requested,  \* requested[i]: the URLs handed to fetch, in call order
    dl,         \* dl[i][k]: state of the download of urls[i][k]
    arrival,    \* arrival[i]: the downloads in the order they completed
    merge,      \* merge[i]: what combineCalendars did in invocation i
    combinedCalendar, \* combinedCalendar[i]: const combinedCalendar (line 203)
    upload,     \* upload[i]: the putObject request of invocation i
    status,     \* status[i]: statusCode returned, 0 while running
    spaces      \* the objects put into the bucket, in order

vars == <<env, web, icalMajor, verbose, args, pc, urls, requested, dl, arrival,
          merge, combinedCalendar, upload, status, spaces>>

NoUpload == [sent |-> FALSE, body |-> C("vcalendar", <<>>, <<>>)]

Unassigned == [set |-> FALSE, events |-> <<>>]

Idle(present) ==
    /\ pc = [i \in Invocations |-> IF i \in present THEN "idle" ELSE "absent"]
    /\ verbose = FALSE
    /\ urls = [i \in Invocations |-> <<>>]
    /\ requested = [i \in Invocations |-> <<>>]
    /\ dl = [i \in Invocations |-> <<>>]
    /\ arrival = [i \in Invocations |-> <<>>]
    /\ merge = [i \in Invocations |-> NoMerge]
    /\ combinedCalendar = [i \in Invocations |-> Unassigned]
    /\ upload = [i \in Invocations |-> NoUpload]
    /\ status = [i \in Invocations |-> 0]
    /\ spaces = <<>>

\* One invocation of main over two calendars: URL a answers any sample
\* content, URL b one of a few, and either URL may come first.
Init ==
    /\ env \in [CALENDAR_URLS : {EnvString(<<"a", ",", " ", "b">>),
                                 EnvString(<<"b", ",", "a">>)},
                BUCKET_NAME : BOOLEAN]
    /\ web \in [Urls -> RichTexts \cup PlainTexts \cup {Garbage, Unreachable}]
    /\ web[<<"b">>] \in PlainTexts \cup {Garbage}
    /\ icalMajor \in IcalMajors
    /\ args \in [Invocations -> [obfuscate : {BoolArg(TRUE), BoolArg(FALSE)},
                                 verbose : {BoolArg(FALSE)}]]
    /\ args[1] = args[2]
    /\ Idle({1})

\* One invocation of main under any sample configuration: CALENDAR_URLS
\* unset or any string of up to MaxSegs segments, BUCKET_NAME set or not.
InitConfig ==
    /\ env \in [CALENDAR_URLS : {Unset} \cup {EnvString(str) : str \in UrlStrings},
                BUCKET_NAME : BOOLEAN]
    /\ web \in [Urls -> PlainTexts \cup {Garbage, Unreachable}]
    /\ icalMajor \in IcalMajors
    /\ args \in [Invocations -> [obfuscate : {StrArg("true"), StrArg("yes")},
                                 verbose : {BoolArg(TRUE)}]]
    /\ args[1] = args[2]
    /\ Idle({1})

\* Two overlapping invocations of main over the same two calendars.
InitMain ==
    /\ env \in [CALENDAR_URLS : {EnvString(<<"a", ",", "b">>)}, BUCKET_NAME : {TRUE}]
    /\ web \in [Urls -> PlainTexts \cup {Garbage, Unreachable}]
    /\ web[<<"a">>] \in {Text(Calendar(<<EvDentist>>)), Garbage}
    /\ web[<<"b">>] \in {Text(Calendar(<<EvWeekly, Group>>)), Unreachable}
    /\ icalMajor \in IcalMajors
    /\ args \in [Invocations -> [obfuscate : {BoolArg(TRUE), BoolArg(FALSE)},
                                 verbose : {StrArg("true"), BoolArg(FALSE)}]]
    /\ Idle(Invocations)

\* As Downloaded, but in the order the downloads completed.
DownloadedByArrival(i) == [k \in Indices(arrival[i]) |-> web[urls[i][arrival[i][k]]]]

\* Promise.all(urls.map(downloadCalendar)): the texts in the order of urls.
Downloaded(i) == [k \in Indices(urls[i]) |-> web[urls[i][k]]]

Fail(i) ==
    /\ pc' = [pc EXCEPT ![i] = "done"]
    /\ status' = [status EXCEPT ![i] = 500]

\* main from its call to the first await (lines 169-200): sets the global
\* verbose flag, reads the configuration and starts every download.
Invoke(i) ==
    /\ pc[i] = "idle"
    /\ verbose' = IsTrue(args[i].verbose)
    /\ LET found == getCalendarUrls(env.CALENDAR_URLS)
       IN  IF ~env.BUCKET_NAME
           THEN Fail(i) /\ UNCHANGED <<urls, requested, dl>>
           ELSE /\ urls' = [urls EXCEPT ![i] = found]
                /\ IF Len(found) < 2
                   THEN Fail(i) /\ UNCHANGED <<requested, dl>>
                   ELSE /\ requested' = [requested EXCEPT ![i] = found]
                        /\ dl' = [dl EXCEPT ![i] = [k \in Indices(found) |->
                                     IF ValidUrl(found[k]) THEN "pending" ELSE "failed"]]
                        /\ IF \A k \in Indices(found) : ValidUrl(found[k])
                           THEN /\ pc' = [pc EXCEPT ![i] = "downloading"]
                                /\ UNCHANGED status
                           ELSE Fail(i)
    /\ UNCHANGED <<env, web, icalMajor, args, arrival, merge, combinedCalendar,
                   upload, spaces>>

\* A download completes (lines 71-74).
DownloadDone(i, k) ==
    /\ pc[i] = "downloading"
    /\ dl[i][k] = "pending"
    /\ web[urls[i][k]].kind # "unreachable"
    /\ dl' = [dl EXCEPT ![i][k] = "done"]
    /\ arrival' = [arrival EXCEPT ![i] = Append(@, k)]
    /\ UNCHANGED <<env, web, icalMajor, verbose, args, pc, urls, requested, merge,
                   combinedCalendar, upload, status, spaces>>

\* A fetch rejects: Promise.all rejects and main returns from its catch.
DownloadFail(i, k) ==
    /\ pc[i] = "downloading"
    /\ dl[i][k] = "pending"
    /\ web[urls[i][k]].kind = "unreachable"
    /\ dl' = [dl EXCEPT ![i][k] = "failed"]
    /\ Fail(i)
    /\ UNCHANGED <<env, web, icalMajor, verbose, args, urls, requested, arrival,
                   merge, combinedCalendar, upload, spaces>>

\* main from the resolution of Promise.all to the await of putObject (lines
\* 200-206 and 136-150): the merge, toString, and the start of the upload.
Combine(i) ==
    /\ pc[i] = "downloading"
    /\ \A k \in Indices(dl[i]) : dl[i][k] = "done"
    /\ LET r == combineCalendars(Downloaded(i), IsTrue(args[i].obfuscate), verbose,
                                 icalMajor)
       IN  /\ merge' = [merge EXCEPT ![i] = r]
           /\ IF r.threw
              THEN /\ Fail(i)
                   /\ UNCHANGED <<combinedCalendar, upload>>
              ELSE /\ combinedCalendar' = [combinedCalendar EXCEPT ![i] =
                                              [set |-> TRUE, events |-> r.combined]]
                   /\ upload' = [upload EXCEPT ![i] =
                         [sent |-> TRUE,
                          body |-> C("vcalendar", <<>>,
                                     [k \in Indices(r.combined) |-> Stringify(r.combined[k])])]]
                   /\ pc' = [pc EXCEPT ![i] = "uploading"]
                   /\ UNCHANGED status
    /\ UNCHANGED <<env, web, icalMajor, verbose, args, urls, requested, dl, arrival,
                   spaces>>

\* putObject succeeds: main returns statusCode 200 (lines 150-212).
UploadDone(i) ==
    /\ pc[i] = "uploading"
    /\ spaces' = Append(spaces, [by |-> i, body |-> upload[i].body])
    /\ pc' = [pc EXCEPT ![i] = "done"]
    /\ status' = [status EXCEPT ![i] = 200]
    /\ UNCHANGED <<env, web, icalMajor, verbose, args, urls, requested, dl, arrival,
                   merge, combinedCalendar, upload>>

\* putObject rejects: uploadToSpaces rethrows and main returns from its catch.
UploadFail(i) ==
    /\ pc[i] = "uploading"
    /\ Fail(i)
    /\ UNCHANGED <<env, web, icalMajor, verbose, args, urls, requested, dl, arrival,
                   merge, combinedCalendar, upload, spaces>>

Next ==
    \E i \in Invocations :
        \/ Invoke(i)
        \/ \E k \in Indices(dl[i]) : DownloadDone(i, k)
        \/ \E k \in Indices(dl[i]) : DownloadFail(i, k)
        \/ Combine(i)
        \/ UploadDone(i)
        \/ UploadFail(i)

Spec == Init /\ [][Next]_vars

SpecConfig == InitConfig /\ [][Next]_vars

SpecMain == InitMain /\ [][Next]_vars

(***************************************************************************)
(* Properties.  They are stated against the texts the URLs answer          *)
(* (SourceText), not against what the merge was handed.                    *)
(***************************************************************************)
Obfuscating(i) == IsTrue(args[i].obfuscate)

\* The text that the s-th configured URL of invocation i answers.
SourceText(i, s) == web[urls[i][s]]

\* The vevents that are children of the root, in order.
DirectEvents(root) ==
    LET Pick[k \in 0..Len(root.comps)] ==
            IF k = 0 THEN <<>>
            ELSE IF root.comps[k].name = "vevent" THEN Append(Pick[k - 1], root.comps[k])
                 ELSE Pick[k - 1]
    IN  Pick[Len(root.comps)]

\* The events of all the sources of invocation i, source after source.
ExpectedEvents(i) ==
    LET Cat[s \in 0..Len(urls[i])] ==
            IF s = 0 THEN <<>> ELSE Cat[s - 1] \o DirectEvents(SourceText(i, s).root)
    IN  Cat[Len(urls[i])]

\* The source event a combined event was made from: the object itself when it
\* was moved, the event it was redacted from otherwise.
SourceEventOf(i, e) ==
    LET o == IF e.oid[1] = 0 THEN Tail(e.oid) ELSE e.oid
    IN  SourceText(i, o[1]).root.comps[o[2]]

\* The properties of c called name, in order.
Named(c, name) ==
    LET Pick[j \in 0..Len(c.props)] ==
            IF j = 0 THEN <<>>
            ELSE IF c.props[j].name = name THEN Append(Pick[j - 1], c.props[j])
                 ELSE Pick[j - 1]
    IN  Pick[Len(c.props)]

RedactedNames == {"dtstart", "dtend", "duration", "rrule", "uid", "summary"}

\* C1: with obfuscate=true every event of the combined calendar carries only
\* properties named dtstart, dtend, duration, rrule, uid or summary, at most
\* one of each, and exactly one summary, whose value is "BUSY".
C1_OnlyEssentialAndBusy ==
    \A i \in Invocations :
        (combinedCalendar[i].set /\ Obfuscating(i)) =>
            \A k \in Indices(combinedCalendar[i].events) :
                LET e == combinedCalendar[i].events[k]
                IN  /\ e.name = "vevent"
                    /\ \A j \in Indices(e.props) : e.props[j].name \in RedactedNames
                    /\ \A n \in RedactedNames : Len(Named(e, n)) <= 1
                    /\ Len(Named(e, "summary")) = 1
                    /\ Named(e, "summary")[1].value = "BUSY"
                    /\ Stringify(e) = upload[i].body.comps[k]

\* C1 witness: an event with a summary, a location and a nested alarm has
\* been redacted into the combined calendar.
C1_Witness ==
    \E i \in Invocations :
        /\ combinedCalendar[i].set /\ Obfuscating(i)
        /\ \E k \in Indices(combinedCalendar[i].events) :
               SourceEventOf(i, combinedCalendar[i].events[k]) = EvDentist

\* The value a component gives for name: that of its first property of that
\* name, none when it has no such property.
FirstValue(c, name) == IF Named(c, name) = <<>> THEN <<>> ELSE <<Named(c, name)[1].value>>

Values(c) == [j \in Indices(c.props) |-> c.props[j].value]

\* C2: the events of the combined calendar are the events of the sources,
\* source after source in the order of the URLs and in their order inside
\* each source, one for one, with obfuscate on or off and whatever the order
\* in which the downloads completed.
C2_Concatenation ==
    \A i \in Invocations :
        combinedCalendar[i].set =>
            LET got  == combinedCalendar[i].events
                want == ExpectedEvents(i)
            IN  /\ Len(got) = Len(want)
                /\ \A k \in Indices(got) :
                       /\ \A n \in {"dtstart", "dtend", "duration", "rrule", "uid"} :
                              FirstValue(got[k], n) = FirstValue(want[k], n)
                       /\ ~Obfuscating(i) => Values(got[k]) = Values(want[k])

\* C2 witness: two sources with different events were merged after the
\* download of the second completed before that of the first.
C2_Witness ==
    \E i \in Invocations :
        /\ combinedCalendar[i].set
        /\ arrival[i] = <<2, 1>>
        /\ Len(DirectEvents(SourceText(i, 1).root)) = 2
        /\ Len(DirectEvents(SourceText(i, 2).root)) = 1
        /\ SourceText(i, 1).root.comps[1] # SourceText(i, 1).root.comps[2]
        /\ SourceText(i, 1).root.comps[1] # SourceText(i, 2).root.comps[1]

\* C3: with obfuscate=true the redacted event has, for each of dtstart,
\* dtend, duration, rrule, uid and in that order, the first property of that
\* name of its source event with the source's value and zone, and no property
\* of a name the source event lacks; every source event is redacted, with or
\* without a dtstart.
C3_FirstEssentialCopied ==
    \A i \in Invocations :
        (combinedCalendar[i].set /\ Obfuscating(i)) =>
            /\ Len(combinedCalendar[i].events) = Len(ExpectedEvents(i))
            /\ \A k \in Indices(combinedCalendar[i].events) :
                   LET e    == combinedCalendar[i].events[k]
                       src  == ExpectedEvents(i)[k]
                       kept == SelectSeq(essentialProps, LAMBDA n : Named(src, n) # <<>>)
                   IN  /\ [j \in Indices(kept) |-> e.props[j].name] = kept
                       /\ Len(e.props) = Len(kept) + 1
                       /\ \A j \in Indices(kept) :
                              /\ e.props[j].value = Named(src, kept[j])[1].value
                              /\ e.props[j].tz = Named(src, kept[j])[1].tz

\* C3 witness: an event with two dtstart and two uid, and an event without a
\* dtstart, have been redacted.
C3_Witness ==
    \E i \in Invocations :
        /\ combinedCalendar[i].set /\ Obfuscating(i)
        /\ \E k, m \in Indices(combinedCalendar[i].events) :
               /\ SourceEventOf(i, combinedCalendar[i].events[k]) = EvDup
               /\ SourceEventOf(i, combinedCalendar[i].events[m]) = EvNoStart

\* C4: every event of the combined calendar that has a dtstart has one with
\* an explicit timezone, with obfuscate on or off: the calendar never holds,
\* and never serializes, a floating dtstart.
C4_NoFloatingStart ==
    \A i \in Invocations :
        combinedCalendar[i].set =>
            \A k \in Indices(combinedCalendar[i].events) :
                LET e == combinedCalendar[i].events[k]
                IN  Named(e, "dtstart") # <<>> =>
                        /\ Named(e, "dtstart")[1].tz # "none"
                        /\ Named(upload[i].body.comps[k], "dtstart")[1].tz # "none"

\* a is b up to a UTC zone attached to a dtstart that had none.
SameProperty(a, b) ==
    \/ a = b
    \/ /\ b.name = "dtstart" /\ b.tz = "none"
       /\ a = [b EXCEPT !.tz = "utc"]

\* C5: with obfuscate=false every event of the combined calendar is its
\* source event: the same object, with the same properties and nested
\* components in the same order, changed at most by a UTC zone attached to a
\* dtstart that had none.
C5_Unchanged ==
    \A i \in Invocations :
        (combinedCalendar[i].set /\ ~Obfuscating(i)) =>
            /\ Len(combinedCalendar[i].events) = Len(ExpectedEvents(i))
            /\ \A k \in Indices(combinedCalendar[i].events) :
                   LET e   == Stringify(combinedCalendar[i].events[k])
                       src == ExpectedEvents(i)[k]
                   IN  /\ e.name = src.name
                       /\ e.comps = src.comps
                       /\ Len(e.props) = Len(src.props)
                       /\ \A j \in Indices(e.props) : SameProperty(e.props[j], src.props[j])
                       /\ combinedCalendar[i].events[k].oid[1] # 0

\* C5 witness: an event with a location, a nested alarm and a second event
\* with a floating dtstart were merged without obfuscation.
C5_Witness ==
    \E i \in Invocations :
        /\ combinedCalendar[i].set /\ ~Obfuscating(i)
        /\ \E k, m \in Indices(combinedCalendar[i].events) :
               /\ SourceEventOf(i, combinedCalendar[i].events[k]) = EvDentist
               /\ SourceEventOf(i, combinedCalendar[i].events[m]) = EvWeekly

\* The number of vevents of c at any depth below it.
RECURSIVE DeepEvents(_)
DeepEvents(c) ==
    LET Sum[k \in 0..Len(c.comps)] ==
            IF k = 0 THEN 0
            ELSE Sum[k - 1] + DeepEvents(c.comps[k])
                 + (IF c.comps[k].name = "vevent" THEN 1 ELSE 0)
    IN  Sum[Len(c.comps)]

\* C6 as stated: every vevent of a source, at any nesting depth, is in the
\* combined calendar.
C6_EveryDepth ==
    \A i \in Invocations :
        combinedCalendar[i].set =>
            LET Sum[s \in 0..Len(urls[i])] ==
                    IF s = 0 THEN 0 ELSE Sum[s - 1] + DeepEvents(SourceText(i, s).root)
            IN  Len(combinedCalendar[i].events) = Sum[Len(urls[i])]

\* C6 amended: the combined calendar holds one event for each vevent that is
\* a child of a source's root component, and for no other component: a
\* vevent nested under a grouping component is not extracted.
C6_DirectChildrenOnly ==
    \A i \in Invocations :
        combinedCalendar[i].set =>
            LET Origin(e) == IF e.oid[1] = 0 THEN Tail(e.oid) ELSE e.oid
                got == {Origin(combinedCalendar[i].events[k]) :
                            k \in Indices(combinedCalendar[i].events)}
                direct == UNION {{<<s, c>> : c \in {d \in Indices(SourceText(i, s).root.comps) :
                                        SourceText(i, s).root.comps[d].name = "vevent"}} :
                                 s \in Indices(urls[i])}
            IN  /\ got = direct
                /\ Cardinality(got) = Len(combinedCalendar[i].events)

\* C6 witness: a source with an event nested under a grouping component, and
\* with an event of its own, has been merged.
C6_Witness ==
    \E i \in Invocations :
        /\ combinedCalendar[i].set
        /\ \E s \in Indices(urls[i]) :
               /\ \E c \in Indices(SourceText(i, s).root.comps) :
                      SourceText(i, s).root.comps[c] = Group
               /\ DirectEvents(SourceText(i, s).root) # <<>>

\* The identities of the property objects of c and of the components below it.
RECURSIVE PropertyObjects(_)
PropertyObjects(c) ==
    {c.props[j].oid : j \in Indices(c.props)}
        \cup UNION {PropertyObjects(c.comps[k]) : k \in Indices(c.comps)}

\* C7: with obfuscate=true the merge leaves every source event as it was
\* parsed, and no property object of the combined calendar is a property
\* object of a source event.
C7_NoAliasNoLoss ==
    \A i \in Invocations :
        (merge[i].ran /\ Obfuscating(i)) =>
            \A s \in Indices(merge[i].sources) :
                /\ Stringify(merge[i].sources[s]) = SourceText(i, s).root
                /\ \A k \in Indices(merge[i].combined) :
                       PropertyObjects(merge[i].combined[k])
                           \cap PropertyObjects(Component(SourceText(i, s).root, <<s>>)) = {}

\* C8: when a source does not parse, combineCalendars throws at the first
\* such source: the sources after it are not parsed, main gets no combined
\* calendar, starts no upload and returns statusCode 500.
C8_ParseFailureStops ==
    \A i \in Invocations :
        LET bad == {s \in Indices(urls[i]) : SourceText(i, s).kind = "garbage"}
        IN  (merge[i].ran /\ bad # {}) =>
                /\ merge[i].threw
                /\ \A s \in bad : merge[i].parsed < s
                /\ ~combinedCalendar[i].set
                /\ ~upload[i].sent
                /\ \A n \in Indices(spaces) : spaces[n].by # i
                /\ pc[i] = "done" /\ status[i] = 500

\* C8 witness: the third of three sources does not parse, after two that do.
C8_Witness ==
    \E i \in Invocations :
        /\ merge[i].ran
        /\ Len(urls[i]) = 3
        /\ SourceText(i, 3).kind = "garbage"
        /\ merge[i].parsed = 2

\* The number of segments of CALENDAR_URLS that hold a URL.
ConfiguredUrls ==
    IF ~env.CALENDAR_URLS.set THEN 0
    ELSE LET parts == Split(env.CALENDAR_URLS.str)
         IN  Cardinality({k \in Indices(parts) : \E c \in Indices(parts[k]) : parts[k][c] # " "})

\* C9: main downloads and uploads only when at least two calendar URLs are
\* configured; with fewer it requests nothing and returns statusCode 500.
C9_TwoUrlsOrNothing ==
    \A i \in Invocations :
        ConfiguredUrls < 2 =>
            /\ \A k \in Indices(requested[i]) : ~ValidUrl(requested[i][k])
            /\ ~upload[i].sent
            /\ pc[i] = "done" => status[i] = 500

\* C10: whether the merge of an invocation prints log lines is decided by
\* the verbose argument of that invocation alone.
C10_OwnVerboseOnly ==
    \A i \in Invocations :
        merge[i].ran => ((merge[i].logs > 0) <=> IsTrue(args[i].verbose))

====
